---- MODULE Spec2Model ----
(***************************************************************************)
(* Model of the katib-ui charm (src/charms/katib-ui/src/charm.py).         *)
(*                                                                         *)
(* Every unit of the application runs one hook at a time.  A hook is one   *)
(* of the observed events; install, upgrade_charm, leader_elected and      *)
(* ingress relation_changed run set_pod_spec, the two sidebar events run   *)
(* the sidebar handlers.  The statements of a handler that call out to the *)
(* platform are separate steps, so hooks of different units interleave and *)
(* leadership may move while a hook is running.                            *)
(***************************************************************************)
EXTENDS Integers, Sequences, FiniteSets, TLC

\* ------------------------------------------------------------------ bounds
NumUnits == 2
\* hooks delivered in all, where hooks of several units interleave
MaxHooks == 2

Units == 1..NumUnits

\* ------------------------------------------------- identity and input sets
AppName == "katib-ui"
ModelName == "kubeflow"

Ports == {-7, 0, 8080}
PortsMulti == {8080}

Images == {"imageA", "imageB"}
ImagesMulti == {"imageA"}

PodSpecEvents == {"install", "upgrade_charm", "leader_elected", "ingress_relation_changed"}
PodSpecEventsMulti == {"leader_elected"}

\* ----------------------------------------------------------------- status
ActiveStatus == [kind |-> "Active", message |-> ""]
BlockedStatus(msg) == [kind |-> "Blocked", message |-> msg]
MaintenanceStatus(msg) == [kind |-> "Maintenance", message |-> msg]
WaitingStatus(msg) == [kind |-> "Waiting", message |-> msg]
UnknownStatus == [kind |-> "Unknown", message |-> ""]
NoStatus == [kind |-> "None", message |-> ""]

\* status_type(msg): calling the status class stored in an exception.
\* Calling None is a TypeError, modelled by the caller.
Construct(status_type, msg) ==
  CASE status_type = "Waiting" -> WaitingStatus(msg)
    [] status_type = "Blocked" -> BlockedStatus(msg)
    [] status_type = "Maintenance" -> MaintenanceStatus(msg)
    [] OTHER -> NoStatus

\* ------------------------------------------------------------- exceptions
Exc(type, msg, status_type, st) ==
  [type |-> type, msg |-> msg, status_type |-> status_type, status |-> st]

\* CheckFailed.__init__: msg = str(msg); status = status_type(msg).
CheckFailed(msg, status_type) ==
  IF status_type = "None"
    THEN Exc("TypeError", "'NoneType' object is not callable", "None", NoStatus)
    ELSE Exc("CheckFailed", msg, status_type, Construct(status_type, msg))

\* oci_image.OCIImageResourceError: carries status_type and
\* status = status_type("<status_message>: <resource_name>").
OCIImageResourceError(status_type, status_message) ==
  Exc("OCIImageResourceError", "oci-image", status_type,
      Construct(status_type, status_message))

ResourceSeverities == {"Waiting", "Blocked"}
ResourceMessages == {"Missing resource: oci-image", "Invalid resource: oci-image"}
ResourceErrors ==
  {OCIImageResourceError(k, m) : k \in ResourceSeverities, m \in ResourceMessages}
ResourceErrorsMulti ==
  {OCIImageResourceError("Blocked", "Missing resource: oci-image")}

NoVersionsListed == Exc("NoVersionsListed", "No versions listed on ingress", "None", NoStatus)
NoCompatibleVersions == Exc("NoCompatibleVersions", "No compatible versions on ingress", "None", NoStatus)

\* results of a call: a returned value or a raised exception
Return(v) == [ret |-> v]
Raise(e) == [exc |-> e]
Raised(r) == "exc" \in DOMAIN r

\* ------------------------------------------------- str(int) and f-string
DigitChar(d) == <<"0", "1", "2", "3", "4", "5", "6", "7", "8", "9">>[d + 1]

RECURSIVE NatToStr(_)
NatToStr(n) ==
  IF n < 10 THEN <<DigitChar(n)>>
  ELSE NatToStr(n \div 10) \o <<DigitChar(n % 10)>>

\* Python str() of an int, as a sequence of characters
IntToStr(n) == IF n < 0 THEN <<"-">> \o NatToStr(-n) ELSE NatToStr(n)

PortArgPrefix == <<"-", "-", "p", "o", "r", "t", "=">>

\* mutant: the argument built from the default port, not the configured one
PortArg_default(p) == PortArgPrefix \o IntToStr(8080)

\* f"--port={self.model.config['port']}"
PortArg(p) == PortArgPrefix \o IntToStr(p)

\* ------------------------------------------------------------ json.dumps
\* Python scalars of the sidebar entry, and the tokens of the JSON text.
PyStr(s) == [t |-> "str", s |-> s, n |-> 0]
PyInt(n) == [t |-> "int", s |-> "", n |-> n]
Tok(k, s, n) == [k |-> k, s |-> s, n |-> n]
Punct(c) == Tok("punct", c, 0)

json_dumps_scalar(v) ==
  IF v.t = "str" THEN Tok("str", v.s, 0) ELSE Tok("num", "", v.n)

\* the items of a dict, in insertion order, from item i on
RECURSIVE json_dumps_items(_, _)
json_dumps_items(d, i) ==
  IF i > Len(d) THEN <<>>
  ELSE (IF i > 1 THEN <<Punct(",")>> ELSE <<>>)
       \o <<Tok("str", d[i].key, 0), Punct(":"), json_dumps_scalar(d[i].val)>>
       \o json_dumps_items(d, i + 1)

json_dumps_dict(d) == <<Punct("{")>> \o json_dumps_items(d, 1) \o <<Punct("}")>>

RECURSIVE json_dumps_elems(_, _)
json_dumps_elems(l, i) ==
  IF i > Len(l) THEN <<>>
  ELSE (IF i > 1 THEN <<Punct(",")>> ELSE <<>>)
       \o json_dumps_dict(l[i]) \o json_dumps_elems(l, i + 1)

\* json.dumps of a list of dicts
json_dumps(l) == <<Punct("[")>> \o json_dumps_elems(l, 1) \o <<Punct("]")>>

\* json.loads, the reader of the relation data on the other side
json_loads_scalar(tok) ==
  IF tok.k = "str" THEN PyStr(tok.s) ELSE PyInt(tok.n)

RECURSIVE json_loads_items(_, _, _)
json_loads_items(toks, i, j) ==
  IF i > j THEN <<>>
  ELSE <<[key |-> toks[i].s, val |-> json_loads_scalar(toks[i + 2])]>>
       \o json_loads_items(toks, i + 4, j)

ClosingBrace(toks, i) ==
  CHOOSE j \in i..Len(toks) :
    /\ toks[j] = Punct("}")
    /\ \A m \in i..(j - 1) : toks[m] # Punct("}")

RECURSIVE json_loads_elems(_, _)
json_loads_elems(toks, i) ==
  IF toks[i] = Punct("]") THEN <<>>
  ELSE LET j == ClosingBrace(toks, i)
       IN <<json_loads_items(toks, i + 1, j - 1)>>
          \o (IF toks[j + 1] = Punct(",")
                THEN json_loads_elems(toks, j + 2)
                ELSE <<>>)

json_loads(toks) == json_loads_elems(toks, 2)

\* value of a key of a decoded object
Get(d, key) == (CHOOSE i \in 1..Len(d) : d[i].key = key)
Val(d, key) == d[Get(d, key)].val
Keys(d) == {d[i].key : i \in 1..Len(d)}

\* the dict literal of lines 154-161
SidebarEntry ==
  << [key |-> "app", val |-> PyStr(AppName)],
     [key |-> "position", val |-> PyInt(5)],
     [key |-> "type", val |-> PyStr("item")],
     [key |-> "link", val |-> PyStr("/katib/")],
     [key |-> "text", val |-> PyStr("Experiments (AutoML)")],
     [key |-> "icon", val |-> PyStr("kubeflow:katib")] >>

SidebarJoinedConfig == json_dumps(<<SidebarEntry>>)
SidebarDepartedConfig == json_dumps(<<>>)

\* ------------------------------------------------------ the pod spec dict
Rule(groups, resources) == [apiGroups |-> groups, resources |-> resources, verbs |-> <<"*">>]

ServiceAccount ==
  [roles |-> << [global |-> TRUE,
                 rules |-> << Rule(<<"">>, <<"configmaps", "namespaces">>),
                              Rule(<<"kubeflow.org">>,
                                   <<"experiments", "trials", "suggestions">>) >>] >>]

Container(p, image_details) ==
  [name |-> "katib-ui",
   command |-> <<"./katib-ui">>,
   args |-> <<PortArg(p)>>,
   imageDetails |-> image_details,
   ports |-> <<[name |-> "http", containerPort |-> p]>>,
   envConfig |-> [KATIB_CORE_NAMESPACE |-> ModelName]]

\* the argument of self.model.pod.set_spec
PodSpec(p, image_details) ==
  [version |-> 3,
   serviceAccount |-> ServiceAccount,
   containers |-> <<Container(p, image_details)>>]

\* mutant: the prefix without its trailing slash
IngressData_no_slash(p) == [prefix |-> "/katib", service |-> AppName, port |-> p]

\* the argument of interfaces["ingress"].send_data
IngressData(p) == [prefix |-> "/katib/", service |-> AppName, port |-> p]

\* ------------------------------------------------------------------ state
VARIABLES
  leader,         \* the set of units holding leadership (at most one)
  pc,             \* per unit: position of the running hook, "idle" if none
  hook,           \* per unit: the event being handled
  port,           \* per unit: self.model.config['port'] as seen by the hook
  interfaces,     \* per unit: local variable interfaces of set_pod_spec
  image_details,  \* per unit: local variable image_details of set_pod_spec
  status,         \* per unit: self.model.unit.status
  log,            \* per unit: the platform calls of the running hook, in order
  raised,         \* per unit: exceptions raised by get_interfaces / image.fetch
  sent,           \* per unit: payloads given to send_data by the running hook
  published,      \* per unit: specs given to pod.set_spec by the running hook
  escaped,        \* per unit: exception that left the handler uncaught
  podSpec,        \* application: the spec last accepted by pod.set_spec
  ingressData,    \* application: the data last sent on the ingress relation
  sidebarConfig,  \* application: key "config" of the sidebar relation data
  update,         \* per unit: argument evaluated for relation.data[app].update
  lastSidebar,    \* the last sidebar event delivered to a unit that was leader
  hooks           \* number of hooks delivered, where it is counted

vars == <<leader, pc, hook, port, interfaces, image_details, status, log,
          raised, sent, published, escaped, podSpec, ingressData,
          sidebarConfig, update, lastSidebar, hooks>>

runLocal == <<interfaces, image_details, raised, sent, published, update>>
shared == <<podSpec, ingressData, sidebarConfig>>

NoInterfaces == [ingress |-> FALSE]
InterfaceSets == {[ingress |-> b] : b \in BOOLEAN}
NegotiationResults ==
  {Return(i) : i \in InterfaceSets} \cup {Raise(NoVersionsListed), Raise(NoCompatibleVersions)}
FetchResults == {Return(i) : i \in Images} \cup {Raise(e) : e \in ResourceErrors}
FetchResultsMulti == {Return(i) : i \in ImagesMulti} \cup {Raise(e) : e \in ResourceErrorsMulti}

Init ==
  /\ leader \in {{}} \cup {{u} : u \in Units}
  /\ pc = [u \in Units |-> "idle"]
  /\ hook = [u \in Units |-> "none"]
  /\ port \in [Units -> {8080}]
  /\ interfaces = [u \in Units |-> NoInterfaces]
  /\ image_details = [u \in Units |-> ""]
  /\ status = [u \in Units |-> UnknownStatus]
  /\ log = [u \in Units |-> <<>>]
  /\ raised = [u \in Units |-> <<>>]
  /\ sent = [u \in Units |-> <<>>]
  /\ published = [u \in Units |-> <<>>]
  /\ escaped = [u \in Units |-> <<>>]
  /\ update = [u \in Units |-> <<>>]
  /\ podSpec = <<>>
  /\ ingressData = <<>>
  /\ sidebarConfig = <<>>
  /\ lastSidebar = "none"
  /\ hooks = 0

\* ------------------------------------------------------- the charm's checks
is_leader(u) == u \in leader

LeaderCall(u) == IF u \in leader THEN "is_leader:True" ELSE "is_leader:False"

\* mutant: the test of is_leader without its "not"
_check_leader_inverted(u) ==
  IF is_leader(u)
    THEN Raise(CheckFailed("Waiting for leadership", "Waiting"))
    ELSE Return("None")

\* Operator._check_leader
_check_leader(u) ==
  IF ~is_leader(u)
    THEN Raise(CheckFailed("Waiting for leadership", "Waiting"))
    ELSE Return("None")

\* mutant: the two except clauses with their status classes exchanged
_get_interfaces_swapped(r) ==
  IF Raised(r) /\ r.exc.type = "NoVersionsListed"
    THEN Raise(CheckFailed(r.exc.msg, "Blocked"))
  ELSE IF Raised(r) /\ r.exc.type = "NoCompatibleVersions"
    THEN Raise(CheckFailed(r.exc.msg, "Waiting"))
  ELSE r

\* mutant: no except clause for NoCompatibleVersions
_get_interfaces_unhandled(r) ==
  IF Raised(r) /\ r.exc.type = "NoVersionsListed"
    THEN Raise(CheckFailed(r.exc.msg, "Waiting"))
  ELSE r

\* Operator._get_interfaces; r is the outcome of get_interfaces(self)
_get_interfaces(r) ==
  IF Raised(r) /\ r.exc.type = "NoVersionsListed"
    THEN Raise(CheckFailed(r.exc.msg, "Waiting"))
  ELSE IF Raised(r) /\ r.exc.type = "NoCompatibleVersions"
    THEN Raise(CheckFailed(r.exc.msg, "Blocked"))
  ELSE r

\* mutant: the resource error always reported as Blocked
_check_image_details_blocked(r) ==
  IF Raised(r) /\ r.exc.type = "OCIImageResourceError"
    THEN Raise(CheckFailed(r.exc.status.message, "Blocked"))
    ELSE r

\* Operator._check_image_details; r is the outcome of self.image.fetch()
_check_image_details(r) ==
  IF Raised(r) /\ r.exc.type = "OCIImageResourceError"
    THEN Raise(CheckFailed(r.exc.status.message, r.exc.status_type))
    ELSE r

\* mutant: send_data without the test of interfaces["ingress"]
_configure_ingress_always(ifaces, p) == <<IngressData(p)>>

\* mutant: the test of interfaces["ingress"] negated
_configure_ingress_inverted(ifaces, p) ==
  IF ~ifaces.ingress THEN <<IngressData(p)>> ELSE <<>>

\* Operator._configure_ingress: the payloads it sends
_configure_ingress(ifaces, p) ==
  IF ifaces.ingress THEN <<IngressData(p)>> ELSE <<>>

\* ------------------------------------------------------------ set_pod_spec
\* leaving the first try block: "except CheckFailed" sets the status and
\* returns, any other exception leaves the handler
Except(u, e, calls) ==
  /\ pc' = [pc EXCEPT ![u] = "done"]
  /\ IF e.type = "CheckFailed"
       THEN /\ status' = [status EXCEPT ![u] = e.status]
            /\ log' = [log EXCEPT ![u] = @ \o calls \o <<"status">>]
            /\ escaped' = escaped
       ELSE /\ status' = status
            /\ log' = [log EXCEPT ![u] = @ \o calls]
            /\ escaped' = [escaped EXCEPT ![u] = <<e.type>>]

Continue(u, next, calls) ==
  /\ pc' = [pc EXCEPT ![u] = next]
  /\ log' = [log EXCEPT ![u] = @ \o calls]
  /\ status' = status
  /\ escaped' = escaped

\* the platform delivers an event to an idle unit
Delivered(counted) ==
  IF counted THEN hooks < MaxHooks /\ hooks' = hooks + 1 ELSE hooks' = hooks

\* an observed pod-spec event is delivered; line 53
set_pod_spec_check_leader(u, ev, p, counted) ==
  /\ pc[u] = "idle"
  /\ Delivered(counted)
  /\ hook' = [hook EXCEPT ![u] = ev]
  /\ port' = [port EXCEPT ![u] = p]
  /\ LET r == _check_leader(u)
     IN IF Raised(r)
          THEN Except(u, r.exc, <<LeaderCall(u)>>)
          ELSE Continue(u, "get_interfaces", <<LeaderCall(u)>>)
  /\ UNCHANGED <<leader, runLocal, shared, lastSidebar>>

\* line 55
set_pod_spec_get_interfaces(u, res) ==
  /\ pc[u] = "get_interfaces"
  /\ raised' = [raised EXCEPT ![u] = IF Raised(res) THEN @ \o <<res.exc>> ELSE @]
  /\ LET r == _get_interfaces(res)
     IN IF Raised(r)
          THEN Except(u, r.exc, <<"get_interfaces">>) /\ interfaces' = interfaces
          ELSE /\ Continue(u, "check_image_details", <<"get_interfaces">>)
               /\ interfaces' = [interfaces EXCEPT ![u] = r.ret]
  /\ UNCHANGED <<leader, hook, port, image_details, sent, published, update, shared, lastSidebar, hooks>>

\* line 57
set_pod_spec_check_image_details(u, res) ==
  /\ pc[u] = "check_image_details"
  /\ raised' = [raised EXCEPT ![u] = IF Raised(res) THEN @ \o <<res.exc>> ELSE @]
  /\ LET r == _check_image_details(res)
     IN IF Raised(r)
          THEN Except(u, r.exc, <<"fetch">>) /\ image_details' = image_details
          ELSE /\ Continue(u, "configure_ingress", <<"fetch">>)
               /\ image_details' = [image_details EXCEPT ![u] = r.ret]
  /\ UNCHANGED <<leader, hook, port, interfaces, sent, published, update, shared, lastSidebar, hooks>>

\* line 63
set_pod_spec_configure_ingress(u) ==
  /\ pc[u] = "configure_ingress"
  /\ LET data == _configure_ingress(interfaces[u], port[u])
     IN /\ sent' = [sent EXCEPT ![u] = @ \o data]
        /\ ingressData' = IF data = <<>> THEN ingressData ELSE data
        /\ Continue(u, "maintenance", IF data = <<>> THEN <<>> ELSE <<"send_data">>)
  /\ UNCHANGED <<leader, hook, port, interfaces, image_details, raised, published,
                 update, podSpec, sidebarConfig, lastSidebar, hooks>>

\* line 65
set_pod_spec_maintenance(u) ==
  /\ pc[u] = "maintenance"
  /\ pc' = [pc EXCEPT ![u] = "fetch"]
  /\ status' = [status EXCEPT ![u] = MaintenanceStatus("Setting pod spec")]
  /\ log' = [log EXCEPT ![u] = @ \o <<"status:Maintenance">>]
  /\ UNCHANGED <<leader, hook, port, runLocal, escaped, shared, lastSidebar, hooks>>

\* lines 67-71
set_pod_spec_fetch(u, res) ==
  /\ pc[u] = "fetch"
  /\ raised' = [raised EXCEPT ![u] = IF Raised(res) THEN @ \o <<res.exc>> ELSE @]
  /\ IF Raised(res)
       THEN /\ image_details' = image_details
            /\ pc' = [pc EXCEPT ![u] = "done"]
            /\ IF res.exc.type = "OCIImageResourceError"
                 THEN /\ status' = [status EXCEPT ![u] = res.exc.status]
                      /\ log' = [log EXCEPT ![u] = @ \o <<"fetch", "status">>]
                      /\ escaped' = escaped
                 ELSE /\ status' = status
                      /\ log' = [log EXCEPT ![u] = @ \o <<"fetch">>]
                      /\ escaped' = [escaped EXCEPT ![u] = <<res.exc.type>>]
       ELSE /\ image_details' = [image_details EXCEPT ![u] = res.ret]
            /\ Continue(u, "set_spec", <<"fetch">>)
  /\ UNCHANGED <<leader, hook, port, interfaces, sent, published, update, shared, lastSidebar, hooks>>

\* lines 73-112
set_pod_spec_set_spec(u) ==
  /\ pc[u] = "set_spec"
  /\ LET spec == PodSpec(port[u], image_details[u])
     IN /\ published' = [published EXCEPT ![u] = @ \o <<spec>>]
        /\ podSpec' = <<spec>>
  /\ Continue(u, "active", <<"set_spec">>)
  /\ UNCHANGED <<leader, hook, port, interfaces, image_details, raised, sent,
                 update, ingressData, sidebarConfig, lastSidebar, hooks>>

\* line 114
set_pod_spec_active(u) ==
  /\ pc[u] = "active"
  /\ pc' = [pc EXCEPT ![u] = "done"]
  /\ status' = [status EXCEPT ![u] = ActiveStatus]
  /\ log' = [log EXCEPT ![u] = @ \o <<"status:Active">>]
  /\ UNCHANGED <<leader, hook, port, runLocal, escaped, shared, lastSidebar, hooks>>

\* ------------------------------------------------------- sidebar handlers
\* the arguments of event.relation.data[self.app].update
SidebarJoinedData == [config |-> json_dumps(<<SidebarEntry>>)]
SidebarDepartedData == [config |-> json_dumps(<<>>)]

\* mutant: relation-joined without the leadership test
_on_sidebar_relation_joined_unguarded(u) == <<SidebarJoinedData>>

\* Operator._on_sidebar_relation_joined: the updates it goes on to make
_on_sidebar_relation_joined(u) ==
  IF ~is_leader(u) THEN <<>> ELSE <<SidebarJoinedData>>

\* mutant: relation-departed without the leadership test
_on_sidebar_relation_departed_unguarded(u) == <<SidebarDepartedData>>

\* Operator._on_sidebar_relation_departed: the updates it goes on to make
_on_sidebar_relation_departed(u) ==
  IF ~is_leader(u) THEN <<>> ELSE <<SidebarDepartedData>>

\* a sidebar event is delivered: the leadership test and the evaluation of
\* the argument of update()
SidebarBegin(u, ev, ups, counted) ==
  /\ pc[u] = "idle"
  /\ Delivered(counted)
  /\ hook' = [hook EXCEPT ![u] = ev]
  /\ log' = [log EXCEPT ![u] = @ \o <<LeaderCall(u)>>]
  /\ update' = [update EXCEPT ![u] = ups]
  /\ pc' = [pc EXCEPT ![u] = IF ups = <<>> THEN "done" ELSE "relation_update"]
  /\ UNCHANGED <<leader, port, interfaces, image_details, status, raised, sent,
                 published, escaped, shared>>

sidebar_relation_joined(u, counted) ==
  /\ SidebarBegin(u, "sidebar_relation_joined", _on_sidebar_relation_joined(u), counted)
  /\ lastSidebar' = IF u \in leader THEN "joined" ELSE lastSidebar

sidebar_relation_departed(u, counted) ==
  /\ SidebarBegin(u, "sidebar_relation_departed", _on_sidebar_relation_departed(u), counted)
  /\ lastSidebar' = IF u \in leader THEN "departed" ELSE lastSidebar

\* the write of lines 150 / 170
sidebar_relation_update(u) ==
  /\ pc[u] = "relation_update"
  /\ sidebarConfig' = <<update[u][1].config>>
  /\ pc' = [pc EXCEPT ![u] = "done"]
  /\ log' = [log EXCEPT ![u] = @ \o <<"relation_update">>]
  /\ UNCHANGED <<leader, hook, port, runLocal, status, escaped, podSpec,
                 ingressData, lastSidebar, hooks>>

\* ------------------------------------------------------------ environment
\* the hook returns to the framework; its locals are gone
Finish(u) ==
  /\ pc[u] = "done"
  /\ pc' = [pc EXCEPT ![u] = "idle"]
  /\ hook' = [hook EXCEPT ![u] = "none"]
  /\ interfaces' = [interfaces EXCEPT ![u] = NoInterfaces]
  /\ image_details' = [image_details EXCEPT ![u] = ""]
  /\ log' = [log EXCEPT ![u] = <<>>]
  /\ raised' = [raised EXCEPT ![u] = <<>>]
  /\ sent' = [sent EXCEPT ![u] = <<>>]
  /\ published' = [published EXCEPT ![u] = <<>>]
  /\ escaped' = [escaped EXCEPT ![u] = <<>>]
  /\ update' = [update EXCEPT ![u] = <<>>]
  /\ UNCHANGED <<leader, port, status, shared, lastSidebar, hooks>>

\* the platform moves or withdraws leadership
LeaderChange(l) ==
  /\ l # leader
  /\ leader' = l
  /\ UNCHANGED <<pc, hook, port, runLocal, status, log, escaped, shared, lastSidebar, hooks>>

Leaderships == {{}} \cup {{u} : u \in Units}

UnitStep(u, events, ports, fetches, counted) ==
  \/ \E ev \in events, p \in ports : set_pod_spec_check_leader(u, ev, p, counted)
  \/ \E res \in NegotiationResults : set_pod_spec_get_interfaces(u, res)
  \/ \E res \in fetches : set_pod_spec_check_image_details(u, res)
  \/ set_pod_spec_configure_ingress(u)
  \/ set_pod_spec_maintenance(u)
  \/ \E res \in fetches : set_pod_spec_fetch(u, res)
  \/ set_pod_spec_set_spec(u)
  \/ set_pod_spec_active(u)
  \/ sidebar_relation_joined(u, counted)
  \/ sidebar_relation_departed(u, counted)
  \/ sidebar_relation_update(u)
  \/ Finish(u)

\* one unit of the application handles events; leadership may be with it,
\* with another unit, or with none
Next ==
  \/ UnitStep(1, PodSpecEvents, Ports, FetchResults, FALSE)
  \/ \E l \in Leaderships : LeaderChange(l)

Spec == Init /\ [][Next]_vars

\* every unit handles events, hooks of different units interleave
NextMulti ==
  \/ \E u \in Units : UnitStep(u, PodSpecEventsMulti, PortsMulti, FetchResultsMulti, TRUE)
  \/ \E l \in Leaderships : LeaderChange(l)

SpecMulti == Init /\ [][NextMulti]_vars

\* ================================================================ properties
Last(s) == s[Len(s)]
Has(s, x) == \E i \in 1..Len(s) : s[i] = x
Before(s, x, y) == \E i, j \in 1..Len(s) : i < j /\ s[i] = x /\ s[j] = y

\* reading a decimal numeral back
CharDigit(c) == CHOOSE d \in 0..9 : DigitChar(d) = c
IsDigit(c) == \E d \in 0..9 : DigitChar(d) = c

RECURSIVE StrToNat(_)
StrToNat(s) ==
  IF Len(s) = 0 THEN 0
  ELSE StrToNat(SubSeq(s, 1, Len(s) - 1)) * 10 + CharDigit(Last(s))

IsNumeral(s) ==
  LET digits == IF Len(s) > 0 /\ s[1] = "-" THEN SubSeq(s, 2, Len(s)) ELSE s
  IN Len(digits) > 0 /\ \A i \in 1..Len(digits) : IsDigit(digits[i])

StrToInt(s) ==
  IF s[1] = "-" THEN 0 - StrToNat(SubSeq(s, 2, Len(s))) ELSE StrToNat(s)

\* a hook that runs set_pod_spec
PodHook(u) == hook[u] \in PodSpecEvents
PodDone(u) == PodHook(u) /\ pc[u] = "done"
WasLeader(u) == Len(log[u]) > 0 /\ log[u][1] = "is_leader:True"
WasNotLeader(u) == Len(log[u]) > 0 /\ log[u][1] = "is_leader:False"

\* C1: a run of set_pod_spec on a unit that is not leader ends right after
\* the leadership check: its only calls are is_leader and the status
\* assignment, nothing is published or sent, and the status is
\* Waiting("Waiting for leadership"), whatever the port and the event.
C1_NotLeaderWaits ==
  \A u \in Units :
    (PodHook(u) /\ WasNotLeader(u)) =>
      /\ pc[u] = "done"
      /\ log[u] = <<"is_leader:False", "status">>
      /\ published[u] = <<>>
      /\ sent[u] = <<>>
      /\ raised[u] = <<>>
      /\ status[u] = WaitingStatus("Waiting for leadership")

C1_Witness ==
  \E u \in Units :
    /\ PodDone(u) /\ WasNotLeader(u)
    /\ port[u] = 8080
    /\ podSpec # <<>>

\* the run ended on a failed image fetch
FetchFailed(u) ==
  /\ PodDone(u)
  /\ raised[u] # <<>>
  /\ Last(raised[u]).type = "OCIImageResourceError"

\* C2: when an image fetch fails, at the pre-check or at the second fetch,
\* the run publishes no spec and ends with the status the resource error
\* declares (same kind, same message).
C2_FetchFailureStatus ==
  \A u \in Units :
    FetchFailed(u) =>
      /\ published[u] = <<>>
      /\ ~Has(log[u], "set_spec")
      /\ status[u] = Last(raised[u]).status
      /\ status[u].kind = Last(raised[u]).status_type

C2_Witness ==
  \E u \in Units :
    /\ FetchFailed(u)
    /\ ~Has(log[u], "status:Maintenance")
    /\ status[u].kind = "Waiting"

\* the run ended on a negotiation error of the given type
NegotiationFailed(u, type) ==
  /\ PodDone(u)
  /\ raised[u] # <<>>
  /\ raised[u][1].type = type

\* C3: on the leader, "no versions listed" ends the run with Waiting and
\* "no compatible versions" with Blocked, each with the error's message;
\* in both cases no image is fetched, nothing is sent and nothing published.
C3_NegotiationStatus ==
  \A u \in Units :
    /\ NegotiationFailed(u, "NoVersionsListed") =>
         status[u] = WaitingStatus(raised[u][1].msg)
    /\ NegotiationFailed(u, "NoCompatibleVersions") =>
         status[u] = BlockedStatus(raised[u][1].msg)
    /\ (NegotiationFailed(u, "NoVersionsListed")
         \/ NegotiationFailed(u, "NoCompatibleVersions")) =>
         /\ WasLeader(u)
         /\ ~Has(log[u], "fetch")
         /\ sent[u] = <<>>
         /\ published[u] = <<>>

C3_Witness ==
  \E u \in Units :
    /\ NegotiationFailed(u, "NoCompatibleVersions")
    /\ status[u].kind = "Blocked"

\* a run of set_pod_spec that ended without reaching Active
Aborted(u) == PodDone(u) /\ ~Has(log[u], "status:Active")

\* C4 as stated: every aborted run of set_pod_spec publishes no spec and
\* writes no relation data.
C4_AbortWritesNothing ==
  \A u \in Units :
    Aborted(u) => published[u] = <<>> /\ sent[u] = <<>> /\ ~Has(log[u], "send_data")

\* C4 amended: an aborted run publishes no spec, and the published spec is
\* only ever changed by the set_spec step; an abort at the leadership check,
\* the negotiation or the first fetch writes no relation data; an abort at
\* the second fetch has sent the ingress payload exactly when the ingress
\* interface is present.
C4_AbortInv ==
  \A u \in Units :
    Aborted(u) =>
      /\ published[u] = <<>>
      /\ ~Has(log[u], "status:Maintenance") =>
           sent[u] = <<>> /\ ~Has(log[u], "send_data")
      /\ Has(log[u], "status:Maintenance") =>
           /\ FetchFailed(u)
           /\ sent[u] = (IF interfaces[u].ingress THEN <<IngressData(port[u])>> ELSE <<>>)

C4_AbortLeavesSpec ==
  [](C4_AbortInv)
  /\ [][podSpec' # podSpec =>
          \E u \in Units : pc[u] = "set_spec" /\ pc'[u] = "active"]_vars

C4_Witness ==
  \E u \in Units :
    /\ Aborted(u)
    /\ Has(log[u], "status:Maintenance")
    /\ sent[u] # <<>>
    /\ podSpec # <<>>

\* the run has passed the ingress step
PastIngress(u) ==
  /\ PodHook(u)
  /\ \/ pc[u] \in {"maintenance", "fetch", "set_spec", "active"}
     \/ pc[u] = "done" /\ Has(log[u], "status:Maintenance")

\* C5: once a run is past the leadership check, the negotiation and the
\* first fetch, it has sent {prefix "/katib/", service app, port} if the
\* negotiated ingress entry is present and has sent nothing if it is absent;
\* either way it goes on without an exception.
C5_IngressIff ==
  \A u \in Units :
    PastIngress(u) =>
      /\ interfaces[u].ingress =>
           sent[u] = <<[prefix |-> "/katib/", service |-> AppName, port |-> port[u]]>>
      /\ ~interfaces[u].ingress => sent[u] = <<>>
      /\ Has(log[u], "send_data") <=> interfaces[u].ingress
      /\ escaped[u] = <<>>

C5_Witness ==
  \E u \in Units :
    /\ PastIngress(u)
    /\ ~interfaces[u].ingress
    /\ pc[u] = "set_spec"

\* the shape the claim asks of a spec published with port p
OneContainerOnPort(spec, p) ==
  /\ Len(spec.containers) = 1
  /\ LET c == spec.containers[1]
     IN /\ Len(c.args) = 1
        /\ Len(c.args[1]) > Len(PortArgPrefix)
        /\ SubSeq(c.args[1], 1, Len(PortArgPrefix)) = PortArgPrefix
        /\ LET num == SubSeq(c.args[1], Len(PortArgPrefix) + 1, Len(c.args[1]))
           IN IsNumeral(num) /\ StrToInt(num) = p
        /\ Len(c.ports) = 1
        /\ c.ports[1].containerPort = p

\* C6: every spec given to set_spec has exactly one container, whose single
\* argument is "--port=" followed by the decimal numeral of the hook's
\* config port and whose containerPort is that port.
C6_PortConsistency ==
  \A u \in Units :
    \A i \in 1..Len(published[u]) : OneContainerOnPort(published[u][i], port[u])

C6_Witness ==
  \E u \in Units :
    /\ published[u] # <<>>
    /\ port[u] = -7
    /\ published[u][1].containers[1].args = <<<<"-", "-", "p", "o", "r", "t", "=", "-", "7">>>>

\* no unit is between the evaluation of a sidebar update and its write
SidebarQuiet == \A u \in Units : pc[u] # "relation_update"

\* the decoded config is a list of exactly one object with the six fields
IsSidebarSingleton(v) ==
  /\ Len(v) = 1
  /\ Len(v[1]) = 6
  /\ Keys(v[1]) = {"app", "position", "type", "link", "text", "icon"}
  /\ Val(v[1], "link") = PyStr("/katib/")
  /\ Val(v[1], "icon") = PyStr("kubeflow:katib")
  /\ Val(v[1], "position") = PyInt(5)
  /\ Val(v[1], "type") = PyStr("item")
  /\ Val(v[1], "text") = PyStr("Experiments (AutoML)")
  /\ Val(v[1], "app") = PyStr(AppName)

\* C7: when no sidebar write is pending, the key "config" decodes to the
\* one-entry list if the last sidebar event delivered to a leader was
\* relation-joined, to the empty list if it was relation-departed, and is
\* unset if there was none; events delivered to a non-leader change nothing.
C7_SidebarConfig ==
  SidebarQuiet =>
    /\ lastSidebar = "none" => sidebarConfig = <<>>
    /\ lastSidebar = "joined" =>
         sidebarConfig # <<>> /\ IsSidebarSingleton(json_loads(sidebarConfig[1]))
    /\ lastSidebar = "departed" =>
         sidebarConfig # <<>> /\ json_loads(sidebarConfig[1]) = <<>>

C7_Witness ==
  \E u \in Units :
    /\ hook[u] = "sidebar_relation_departed"
    /\ pc[u] = "done"
    /\ WasNotLeader(u)
    /\ lastSidebar = "joined"
    /\ sidebarConfig # <<>>

Writes == {"send_data", "set_spec", "relation_update"}

\* C8: with hooks of several units interleaving and leadership moving at
\* any time, every write call (send_data, set_spec, relation update) in a
\* hook comes after that hook's own is_leader call, which returned True, and
\* every change of the shared state is made by such a hook.
C8_WriteInv ==
  \A u \in Units :
    \A i \in 1..Len(log[u]) :
      log[u][i] \in Writes => i > 1 /\ log[u][1] = "is_leader:True"

C8_LeaderOnlyWrites ==
  [](C8_WriteInv)
  /\ [][(podSpec' # podSpec \/ ingressData' # ingressData
           \/ sidebarConfig' # sidebarConfig) =>
          \E u \in Units :
            /\ log'[u] # log[u]
            /\ Last(log'[u]) \in Writes
            /\ log[u] # <<>>
            /\ log[u][1] = "is_leader:True"]_vars

C8_Witness ==
  \E u, v \in Units :
    /\ u # v
    /\ Has(log[u], "set_spec")
    /\ Has(log[v], "relation_update")
    /\ u \notin leader

\* C9: no exception leaves a handler, and a finished run of set_pod_spec
\* ends on a status assignment whose status is Active, Waiting or Blocked.
C9_NoEscape ==
  \A u \in Units :
    /\ escaped[u] = <<>>
    /\ PodDone(u) =>
         /\ Last(log[u]) \in {"status", "status:Active"}
         /\ status[u].kind \in {"Active", "Waiting", "Blocked"}
         /\ status[u].kind = "Active" <=> Last(log[u]) = "status:Active"

C9_Witness ==
  \E u \in Units :
    /\ PodDone(u)
    /\ Len(raised[u]) = 1
    /\ Has(log[u], "status:Maintenance")
    /\ status[u].kind = "Waiting"

\* a finished run on the leader with the ingress interface negotiated and
\* no failing call
CleanRun(u) ==
  /\ PodDone(u)
  /\ WasLeader(u)
  /\ raised[u] = <<>>
  /\ interfaces[u].ingress

\* C10: a run on the leader with ingress present and the image resolvable
\* at both fetches makes its calls in the order: send the ingress payload,
\* status Maintenance("Setting pod spec"), second fetch, set_spec once with
\* container port p, status Active; Active is never set in a run before that
\* run's set_spec, and the status is Maintenance from the transient
\* assignment until the run's last assignment.
C10_EndToEnd ==
  \A u \in Units :
    /\ CleanRun(u) =>
         /\ log[u] = <<"is_leader:True", "get_interfaces", "fetch", "send_data",
                       "status:Maintenance", "fetch", "set_spec", "status:Active">>
         /\ sent[u] = <<[prefix |-> "/katib/", service |-> AppName, port |-> port[u]]>>
         /\ Len(published[u]) = 1
         /\ published[u][1].containers[1].ports[1].containerPort = port[u]
         /\ published[u][1].containers[1].imageDetails = image_details[u]
         /\ status[u] = ActiveStatus
    /\ Has(log[u], "status:Active") => Before(log[u], "set_spec", "status:Active")
    /\ (PodHook(u) /\ pc[u] \in {"fetch", "set_spec", "active"}) =>
         status[u] = MaintenanceStatus("Setting pod spec")

C10_Witness ==
  \E u \in Units :
    /\ CleanRun(u)
    /\ port[u] = 8080
    /\ status[u] = ActiveStatus
    /\ ingressData = <<[prefix |-> "/katib/", service |-> AppName, port |-> 8080]>>
    /\ podSpec # <<>>
    /\ podSpec[1].containers[1].ports[1].containerPort = 8080

====
